---- MODULE Spec2Model ----
(***************************************************************************)
(* Model of sparp (src/src/sparp/sparp.py): a producer, a pool of          *)
(* consumers, a canceler and an updater run as coroutines of one asyncio   *)
(* event loop and coordinate through source_queue, source_semaphore,       *)
(* sink_queue and SharedMemory.                                            *)
(*                                                                         *)
(* One action is one run of a coroutine between two suspensions.  The      *)
(* coroutines suspend in asyncio.sleep, in session.request and in          *)
(* source_semaphore.acquire; put on the unbounded queues and the           *)
(* SharedMemory methods do not suspend (the lock is never held across a    *)
(* suspension, so it is free whenever a coroutine runs).  A consumer that  *)
(* waited in acquire is given its permit by release and resumes later, so  *)
(* acquire and get_nowait are two actions; the event loop resumes the      *)
(* consumers in the order in which they were given their permits.          *)
(*                                                                         *)
(* Time is counted in ticks.  Spec is the untimed program (a sleep of 0    *)
(* between admissions, any interleaving); TimedSpec adds the passing of    *)
(* time, which waits for every coroutine that is ready to run.             *)
(***************************************************************************)
EXTENDS Integers, Sequences, FiniteSets, TLC

\* ------------------------------------------------------------------ bounds
MaxItems == 2
MaxPool == 2
TimedMaxItems == 3
MaxDelay == 2

\* ------------------------------------------------------- program constants
UnknownTotal == -1
DefaultOkStatus == 200
RejectedStatus == 500

ok_status_codes == {DefaultOkStatus}
StatusCodes == {DefaultOkStatus, RejectedStatus}

VARIABLES
    n_configs,                 \* number of items the input source yields
    has_len,                   \* hasattr(configs, "__len__")
    max_outstanding_requests,
    stop_on_first_fail,
    disable_bar,
    attempts,
    time_between_requests,
    collaborator,              \* the replies the collaborator may give
    mainpc,                    \* position of async_sparp / async_main
    source_queue,
    source_semaphore,
    sink_queue,
    shared,                    \* the SharedMemory fields
    prod,                      \* producer: position and local total
    cons,                      \* consumers: position and local config (0
                               \* while the consumer holds no task)
    canc,                      \* canceler: position
    upd,                       \* updater: position
    result,                    \* the list async_sparp returns
    holders,                   \* consumers given a permit that have not
                               \* resumed yet, in the order of the permits
    sleep_left,                \* what is left of the producer's sleep
    since_admit,               \* time since the last admission (saturates)
    since_sent,                \* time since the last request (saturates)
    unlocked_access,           \* a SharedMemory field was used without lock
    stub_log,                  \* what session.request did for each task
    deq_log,                   \* the tasks get_nowait returned, in order
    admitted_at_stop           \* tasks admitted when should_stop was first set

params == <<n_configs, has_len, max_outstanding_requests, stop_on_first_fail,
            disable_bar, attempts, time_between_requests, collaborator>>
ghosts == <<stub_log, deq_log, admitted_at_stop>>
clocks == <<sleep_left, since_admit, since_sent>>
vars == <<n_configs, has_len, max_outstanding_requests, stop_on_first_fail,
          disable_bar, attempts, time_between_requests, collaborator,
          mainpc, source_queue,
          source_semaphore, sink_queue, shared, prod, cons, canc, upd,
          result, holders, sleep_left, since_admit, since_sent,
          unlocked_access, stub_log, deq_log, admitted_at_stop>>

\* ------------------------------------------------------------ SharedMemory
\* print_counter divides done by total: it raises ZeroDivisionError when
\* total is 0 (total -1 takes the other branch).
print_counter_raises(sh) == sh.total = 0

\* the methods print only when the bar is enabled
PrintRaises(sh) == (~disable_bar) /\ print_counter_raises(sh)

\* the SharedMemory methods that take the lock (`async with self.lock`);
\* print_counter does not
LockingMethods ==
    {"set_should_stop", "get_should_stop", "increment_success",
     "increment_fail", "update", "check_done", "set_total"}

\* some method of a set of calls uses the fields without the lock
UsesFieldsUnlocked(calls) == \E m \in calls : m \notin LockingMethods

SharedMemoryInit(total) ==
    [done |-> 0, success |-> 0, fail |-> 0, total |-> total,
     should_stop |-> FALSE]

set_should_stop(sh) == [sh EXCEPT !.should_stop = TRUE]

get_should_stop(sh) == sh.should_stop

increment_success(sh) == [sh EXCEPT !.done = @ + 1, !.success = @ + 1]

increment_fail_uncounted(sh) == [sh EXCEPT !.fail = @ + 1]

increment_fail(sh) == [sh EXCEPT !.done = @ + 1, !.fail = @ + 1]

check_done_unknown(sh) == sh.total = sh.done \/ sh.total = UnknownTotal

check_done_reached(sh) == sh.done >= sh.total

check_done(sh) == sh.total = sh.done

set_total(sh, total) ==
    IF sh.total = UnknownTotal THEN [sh EXCEPT !.total = total] ELSE sh

\* ------------------------------------------------- execution collaborator
NoReply == [raises |-> FALSE, status |-> 0, json_ok |-> FALSE]

\* What session.request / response.text / response.json do for one task:
\* raise, return a status that is not accepted, or return an accepted status
\* with a body that parses as JSON or does not.
StubReplies ==
    {[raises |-> TRUE, status |-> DefaultOkStatus, json_ok |-> TRUE],
     [raises |-> FALSE, status |-> RejectedStatus, json_ok |-> TRUE]} \cup
    [raises : {FALSE}, status : {DefaultOkStatus}, json_ok : BOOLEAN]

\* an accepted status with a body that parses
AcceptedReply ==
    [raises |-> FALSE, status |-> DefaultOkStatus, json_ok |-> TRUE]

JsonDecodeFailure == "Failed to decode json"

\* the response dict the consumer builds (the stub echoes the task in the
\* body, and the traceback names it)
BuildResponse(config, reply) ==
    IF reply.raises
    THEN [error_message |-> config]
    ELSE [text |-> config,
          status_code |-> reply.status,
          json |-> IF reply.json_ok THEN "json" ELSE JsonDecodeFailure,
          elapsed |-> 0]

IsFailOrUndecoded(response) ==
    \/ "error_message" \in DOMAIN response
    \/ response.status_code \notin ok_status_codes
    \/ response.json = JsonDecodeFailure

\* the consumer's classification of a response dict
IsFail(response) ==
    \/ "error_message" \in DOMAIN response
    \/ response.status_code \notin ok_status_codes

\* the task a response dict belongs to
TaskOf(response) ==
    IF "error_message" \in DOMAIN response
    THEN response.error_message
    ELSE response.text

\* -------------------------------------------------------------------- Init
\* The parameters of a call of async_sparp.  The bar changes what a run does
\* only where print_counter raises, which takes a total of 0: runs on a
\* source with items are taken with the default disable_bar = False.
InitState ==
    /\ mainpc = "Idle"
    /\ source_queue = <<>>
    /\ source_semaphore = 0
    /\ sink_queue = <<>>
    /\ shared = SharedMemoryInit(UnknownTotal)
    /\ prod = [pc |-> "idle", total |-> 0]
    /\ cons = <<>>
    /\ canc = "idle"
    /\ upd = "idle"
    /\ result = <<>>
    /\ stub_log = [t \in 1..n_configs |-> NoReply]
    /\ deq_log = <<>>
    /\ admitted_at_stop = -1
    /\ holders = <<>>
    /\ sleep_left = 0
    /\ since_admit = 0
    /\ since_sent = 0
    /\ unlocked_access = FALSE

Init ==
    /\ n_configs \in 0..MaxItems
    /\ has_len \in BOOLEAN
    /\ max_outstanding_requests \in 1..MaxPool
    /\ stop_on_first_fail \in BOOLEAN
    /\ disable_bar \in (IF n_configs = 0 THEN BOOLEAN ELSE {FALSE})
    /\ attempts \in {0, 1}
    /\ time_between_requests = 0
    /\ collaborator = StubReplies
    /\ InitState

\* ------------------------------------------------- async_sparp, async_main
attempts_negative(n) == n < 0

\* `if attempts < 1: raise ValueError`
attempts_invalid(n) == n < 1

ConsumersOneMore(k) == 1..(k + 1)

\* the consumers async_main creates
Consumers(k) == 1..k

\* async_sparp up to the gather of async_main: the attempts check, the
\* total, the queues, the semaphore, SharedMemory (whose constructor prints
\* the bar) and the coroutines.
Start ==
    /\ mainpc = "Idle"
    /\ LET total == IF has_len THEN n_configs ELSE UnknownTotal
           sh == SharedMemoryInit(total)
       IN IF attempts_invalid(attempts)
          THEN /\ mainpc' = "ValueError"
               /\ UNCHANGED <<shared, prod, cons, canc, upd>>
          ELSE IF PrintRaises(sh)
          THEN /\ mainpc' = "Raised"
               /\ UNCHANGED <<shared, prod, cons, canc, upd>>
          ELSE /\ mainpc' = "Running"
               /\ shared' = sh
               /\ prod' = [pc |-> "iter", total |-> 0]
               /\ cons' = [c \in Consumers(max_outstanding_requests)
                             |-> [pc |-> "acquire", config |-> 0]]
               /\ canc' = "poll"
               /\ upd' = "poll"
    /\ UNCHANGED <<params, source_queue, source_semaphore, sink_queue,
                   result, holders, clocks, unlocked_access, ghosts>>

\* ---------------------------------------------------------------- producer
\* number of tasks enqueued and given their permit
Admitted == prod.total

asyncio_sleep_zero(delay) == delay - delay

\* how long `await asyncio.sleep(delay)` suspends its caller, at least
asyncio_sleep(delay) == delay

PermitsPerItemTwo == 1 + 1

\* source_semaphore.release() is called once per item
PermitsPerItem == 1

\* the producer is not sleeping and has not returned
ProducerReady == prod.pc = "iter" /\ sleep_left = 0

\* for item in items: total += 1; await source_queue.put(item);
\* source_semaphore.release(); await asyncio.sleep(time_between_requests)
ProducerAdmit ==
    /\ mainpc = "Running"
    /\ ProducerReady
    /\ prod.total < n_configs
    /\ prod' = [prod EXCEPT !.total = @ + 1]
    /\ source_queue' = Append(source_queue, prod.total + 1)
    /\ source_semaphore' = source_semaphore + PermitsPerItem
    /\ sleep_left' = asyncio_sleep(time_between_requests)
    /\ since_admit' = 0
    /\ UNCHANGED <<params, mainpc, sink_queue, shared, cons, canc, upd,
                   result, holders, since_sent, unlocked_access, ghosts>>

\* the source is exhausted: await shared.set_total(total)
ProducerSetTotal ==
    /\ mainpc = "Running"
    /\ ProducerReady
    /\ prod.total = n_configs
    /\ shared' = set_total(shared, prod.total)
    /\ prod' = [prod EXCEPT !.pc = "exit"]
    /\ unlocked_access' = (unlocked_access \/ UsesFieldsUnlocked({"set_total"}))
    /\ UNCHANGED <<params, mainpc, source_queue, source_semaphore,
                   sink_queue, cons, canc, upd, result, holders, clocks,
                   ghosts>>

Producer == ProducerAdmit \/ ProducerSetTotal

\* ---------------------------------------------------------------- consumer
get_nowait_keep(queue) == queue

\* what get_nowait leaves in the queue
get_nowait_rest(queue) == Tail(queue)

LoopBreak == "exit"

\* `while True`: where the consumer goes after it has counted an outcome
LoopHead == "acquire"

\* the canceler has not made its bulk release
BeforeBulkRelease == canc # "exit"

\* the consumers suspended in acquire are interchangeable (they hold no
\* task): the one the semaphore wakes is taken to be the first of them
FirstWaiter(c) ==
    \A other \in DOMAIN cons : cons[other].pc = "acquire" => c <= other

\* await source_semaphore.acquire(): the consumer is given a permit and
\* is scheduled behind the consumers that were given theirs before
ConsumerAcquire(c) ==
    /\ mainpc = "Running"
    /\ cons[c].pc = "acquire"
    /\ FirstWaiter(c)
    /\ source_semaphore > 0
    /\ source_semaphore' = source_semaphore - 1
    /\ cons' = [cons EXCEPT ![c].pc = "get_nowait"]
    /\ holders' = Append(holders, [consumer |-> c,
                                   early |-> BeforeBulkRelease])
    /\ UNCHANGED <<params, mainpc, source_queue, sink_queue, shared, prod,
                   canc, upd, result, clocks, unlocked_access, ghosts>>

\* config = source_queue.get_nowait(), break on QueueEmpty; otherwise the
\* call session.request(**config) is made
ConsumerGetNowait(c) ==
    /\ mainpc = "Running"
    /\ cons[c].pc = "get_nowait"
    /\ holders # <<>>
    /\ Head(holders).consumer = c
    /\ holders' = Tail(holders)
    /\ IF source_queue = <<>>
       THEN /\ cons' = [cons EXCEPT ![c].pc = "exit"]
            /\ UNCHANGED <<source_queue, deq_log, since_sent>>
       ELSE /\ cons' = [cons EXCEPT ![c] = [pc |-> "request",
                                            config |-> Head(source_queue)]]
            /\ source_queue' = get_nowait_rest(source_queue)
            /\ deq_log' = Append(deq_log, Head(source_queue))
            /\ since_sent' = 0
    /\ UNCHANGED <<params, mainpc, source_semaphore, sink_queue, shared,
                   prod, canc, upd, result, sleep_left, since_admit,
                   unlocked_access, stub_log, admitted_at_stop>>

\* the call returns or raises; the consumer builds the response dict, puts
\* it on sink_queue, counts it (increment_fail and increment_success print
\* the bar) and sets should_stop on a failure when stop_on_first_fail
ConsumerRequest(c) ==
    /\ mainpc = "Running"
    /\ cons[c].pc = "request"
    /\ \E reply \in collaborator :
         LET config == cons[c].config
             response == BuildResponse(config, reply)
             failed == IsFail(response)
             counted == IF failed THEN increment_fail(shared)
                                  ELSE increment_success(shared)
             raised == PrintRaises(counted)
             stops == failed /\ stop_on_first_fail /\ ~raised
         IN /\ stub_log' = [stub_log EXCEPT ![config] = reply]
            /\ sink_queue' = Append(sink_queue, response)
            /\ shared' = IF stops THEN set_should_stop(counted) ELSE counted
            /\ admitted_at_stop' =
                 IF stops /\ ~shared.should_stop THEN Admitted
                                                ELSE admitted_at_stop
            /\ mainpc' = IF raised THEN "Raised" ELSE mainpc
            /\ cons' = [cons EXCEPT ![c] =
                          [pc |-> IF raised THEN "raised" ELSE LoopHead,
                           config |-> 0]]
            /\ unlocked_access' =
                 (unlocked_access \/ UsesFieldsUnlocked(
                    {IF failed THEN "increment_fail" ELSE "increment_success"}
                    \cup (IF stops THEN {"set_should_stop"} ELSE {})))
    /\ UNCHANGED <<params, source_queue, source_semaphore, prod, canc, upd,
                   result, holders, clocks, deq_log>>

Consumer(c) ==
    \/ ConsumerAcquire(c)
    \/ ConsumerGetNowait(c)
    \/ ConsumerRequest(c)

\* ---------------------------------------------------------------- canceler
\* the permits of `for _ in range(n_consumers): source_semaphore.release()`
BulkReleaseOneLess(n_consumers) == n_consumers - 1

BulkReleaseOneMore(n_consumers) == n_consumers + 1

BulkRelease(n_consumers) == n_consumers

\* await asyncio.sleep(0.1); is_done = await shared.check_done();
\* should_stop = await shared.get_should_stop(); release and break, or loop
Canceler ==
    /\ mainpc = "Running"
    /\ canc = "poll"
    /\ LET is_done == check_done(shared)
           should_stop == get_should_stop(shared)
       IN IF is_done \/ should_stop
          THEN /\ source_semaphore' =
                    source_semaphore + BulkRelease(max_outstanding_requests)
               /\ canc' = "exit"
          ELSE UNCHANGED <<source_semaphore, canc>>
    /\ unlocked_access' =
         (unlocked_access \/
            UsesFieldsUnlocked({"check_done", "get_should_stop"}))
    /\ UNCHANGED <<params, mainpc, source_queue, sink_queue, shared, prod,
                   cons, upd, result, holders, clocks, ghosts>>

\* ----------------------------------------------------------------- updater
\* await asyncio.sleep(0.3); await shared.update();
\* done = await shared.check_done();
\* should_stop = await shared.get_should_stop();
\* final print_counter(done=True) and break, or loop
Updater ==
    /\ mainpc = "Running"
    /\ upd = "poll"
    /\ LET done == check_done(shared)
           should_stop == get_should_stop(shared)
       IN IF PrintRaises(shared)
          THEN /\ mainpc' = "Raised"
               /\ upd' = "raised"
               /\ unlocked_access' =
                    (unlocked_access \/ UsesFieldsUnlocked({"update"}))
          ELSE /\ mainpc' = mainpc
               /\ upd' = IF done \/ should_stop THEN "exit" ELSE "poll"
               /\ unlocked_access' =
                    (unlocked_access \/ UsesFieldsUnlocked(
                       {"update", "check_done", "get_should_stop"} \cup
                       (IF (done \/ should_stop) /\ ~disable_bar
                        THEN {"print_counter"} ELSE {})))
    /\ UNCHANGED <<params, source_queue, source_semaphore, sink_queue,
                   shared, prod, cons, canc, result, holders, clocks, ghosts>>

\* ------------------------------------------------------ gather and drain
AllExited ==
    /\ prod.pc = "exit"
    /\ canc = "exit"
    /\ upd = "exit"
    /\ \A c \in DOMAIN cons : cons[c].pc = "exit"

\* await asyncio.gather(*coros) returns once every coroutine has returned
GatherReturns ==
    /\ mainpc = "Running"
    /\ AllExited
    /\ mainpc' = "Draining"
    /\ UNCHANGED <<params, source_queue, source_semaphore, sink_queue,
                   shared, prod, cons, canc, upd, result, holders, clocks,
                   unlocked_access, ghosts>>

empty_full_queue_reversed(queue) ==
    [i \in 1..Len(queue) |-> queue[Len(queue) + 1 - i]]

empty_full_queue_short(queue) == SubSeq(queue, 1, Len(queue) - 1)

\* the list empty_full_queue builds from a queue
empty_full_queue(queue) == queue

\* result = await empty_full_queue(sink_queue); return result
Drain ==
    /\ mainpc = "Draining"
    /\ result' = empty_full_queue(sink_queue)
    /\ sink_queue' = <<>>
    /\ mainpc' = "Done"
    /\ UNCHANGED <<params, source_queue, source_semaphore, shared, prod,
                   cons, canc, upd, holders, clocks, unlocked_access, ghosts>>

\* async_sparp itself: the set-up, the gather and the drain
Main == Start \/ GatherReturns \/ Drain

\* ------------------------------------------------------------------- Next
Next ==
    \/ Main
    \/ Producer
    \/ \E c \in DOMAIN cons : Consumer(c)
    \/ Canceler
    \/ Updater

Spec == Init /\ [][Next]_vars

\* ------------------------------------------------------------ timed runs
\* a consumer that holds a permit, or can take one, is ready to run
ConsumerReady ==
    \/ holders # <<>>
    \/ source_semaphore > 0 /\ \E c \in DOMAIN cons : cons[c].pc = "acquire"

\* a clock that counts up to time_between_requests
Saturated(clock) ==
    IF clock < time_between_requests THEN clock + 1 ELSE clock

\* one tick passes: the event loop has run every coroutine that was ready;
\* the calls of session.request and the polls take any time
Tick ==
    /\ mainpc = "Running"
    /\ ~ProducerReady
    /\ ~ConsumerReady
    /\ sleep_left' = IF sleep_left > 0 THEN sleep_left - 1 ELSE 0
    /\ since_admit' = Saturated(since_admit)
    /\ since_sent' = Saturated(since_sent)
    /\ UNCHANGED <<params, mainpc, source_queue, source_semaphore,
                   sink_queue, shared, prod, cons, canc, upd, result,
                   holders, unlocked_access, ghosts>>

\* calls with a positive time_between_requests and a collaborator that
\* accepts every request
TimedInit ==
    /\ n_configs \in 1..TimedMaxItems
    /\ has_len \in BOOLEAN
    /\ max_outstanding_requests \in 1..MaxPool
    /\ stop_on_first_fail = FALSE
    /\ disable_bar = FALSE
    /\ attempts = 1
    /\ time_between_requests \in 1..MaxDelay
    /\ collaborator = {AcceptedReply}
    /\ InitState

TimedNext == Next \/ Tick

TimedSpec == TimedInit /\ [][TimedNext]_vars

\* the event loop runs every coroutine that is ready, and every call of the
\* execution collaborator returns
FairSpec ==
    /\ Spec
    /\ WF_vars(Main)
    /\ WF_vars(Producer)
    /\ \A c \in 1..MaxPool : WF_vars(c \in DOMAIN cons /\ Consumer(c))
    /\ WF_vars(Canceler)
    /\ WF_vars(Updater)

TypeOK ==
    /\ mainpc \in {"Idle", "Running", "Draining", "Done", "Raised",
                   "ValueError"}
    /\ source_semaphore \in Nat
    /\ shared.done \in Nat
    /\ time_between_requests \in 0..MaxDelay
    /\ sleep_left \in 0..time_between_requests
    /\ since_admit \in 0..time_between_requests
    /\ since_sent \in 0..time_between_requests
    /\ collaborator \subseteq StubReplies
    /\ unlocked_access \in BOOLEAN
    /\ \A i \in DOMAIN holders :
          /\ holders[i].consumer \in DOMAIN cons
          /\ cons[holders[i].consumer].pc = "get_nowait"
    /\ Len(holders) =
         Cardinality({c \in DOMAIN cons : cons[c].pc = "get_nowait"})

\* ----------------------------------------------------------- observations
\* consumers whose call of session.request has not returned
InFlight == {c \in DOMAIN cons : cons[c].pc = "request"}

\* the tasks that have been counted in done
Counted == {t \in DOMAIN stub_log : stub_log[t] # NoReply}

\* how many outcomes of task t a list of response dicts holds
Occurrences(seq, t) == Cardinality({i \in DOMAIN seq : TaskOf(seq[i]) = t})

\* how many times task t was dequeued
Dequeues(t) == Cardinality({i \in DOMAIN deq_log : deq_log[i] = t})

\* the collaborator raised or returned a status that is not accepted
ReplyFails(reply) == reply.raises \/ reply.status \notin ok_status_codes

\* ------------------------------------------------------------------ claims

\* C1: for every finite input, pool size, outcome assignment and value of
\* stop_on_first_fail, under fair scheduling the producer, the consumers,
\* the canceler and the updater all exit, gather returns and the pipeline
\* reaches Done.
C1_Termination == (attempts >= 1) => <>(mainpc = "Done")

\* The same, away from the inputs on which print_counter divides by a total
\* of 0 (an empty source with the progress bar enabled).
TerminationOfNonEmptyRuns ==
    (attempts >= 1 /\ (disable_bar \/ n_configs > 0)) => <>(mainpc = "Done")

\* C2: in every reachable state done = success + fail, and once total is
\* known done <= total.
C2_CounterInvariant ==
    /\ shared.done = shared.success + shared.fail
    /\ shared.total # UnknownTotal => shared.done <= shared.total

C2_Witness ==
    /\ shared.total # UnknownTotal
    /\ shared.success >= 1
    /\ shared.fail >= 1
    /\ shared.done = shared.total

\* C3: when the pipeline completes, the returned list has length done =
\* success + fail, every counted task has exactly one outcome in it and
\* every outcome in it was counted.
C3_ResultMatchesCounters ==
    mainpc = "Done" =>
        /\ Len(result) = shared.done
        /\ shared.done = shared.success + shared.fail
        /\ Cardinality(Counted) = shared.done
        /\ \A t \in DOMAIN stub_log :
              Occurrences(result, t) = IF t \in Counted THEN 1 ELSE 0

C3_Witness ==
    /\ mainpc = "Done"
    /\ stop_on_first_fail
    /\ shared.should_stop
    /\ Len(result) = 2
    /\ shared.success = 1

\* C4 as stated: for every run, at completion total is known and done =
\* total = the number of task descriptors of the source.
C4_DoneEqualsTotal ==
    mainpc = "Done" =>
        /\ shared.total = n_configs
        /\ shared.done = shared.total

\* C4 amended: at completion total is known and is the number of task
\* descriptors, and done = total when should_stop was not set.
C4_DoneEqualsTotalUnlessStopped ==
    mainpc = "Done" =>
        /\ shared.total = n_configs
        /\ (~shared.should_stop) => shared.done = shared.total

C4_Witness ==
    /\ mainpc = "Done"
    /\ ~has_len
    /\ ~shared.should_stop
    /\ shared.total = 2
    /\ shared.done = 2

\* C5: the number of consumers that have dequeued a task and whose call of
\* session.request has not returned never exceeds max_outstanding_requests.
C5_ConcurrencyCeiling == Cardinality(InFlight) <= max_outstanding_requests

C5_Witness ==
    /\ max_outstanding_requests = 2
    /\ Cardinality(InFlight) = 2

\* C6: with stop_on_first_fail = false should_stop stays false, and at
\* completion the result holds exactly one outcome per input task, done is
\* the number of tasks, fail is the number of tasks whose call raised or
\* returned a status that is not accepted, and success is the number of the
\* others (a body that does not parse as JSON does not make a task fail).
C6_AllTasksClassified ==
    (~stop_on_first_fail) =>
        /\ ~shared.should_stop
        /\ mainpc = "Done" =>
              /\ Len(result) = n_configs
              /\ \A t \in 1..n_configs : Occurrences(result, t) = 1
              /\ shared.done = n_configs
              /\ shared.fail =
                   Cardinality({t \in 1..n_configs : ReplyFails(stub_log[t])})
              /\ shared.success =
                   Cardinality({t \in 1..n_configs : ~ReplyFails(stub_log[t])})

C6_Witness ==
    /\ ~stop_on_first_fail
    /\ mainpc = "Done"
    /\ n_configs = 2
    /\ shared.fail = 1
    /\ shared.success = 1
    /\ \E t \in 1..n_configs :
          /\ ~ReplyFails(stub_log[t])
          /\ ~stub_log[t].json_ok

\* C7: each task put on source_queue is dequeued by at most one consumer,
\* produces at most one outcome, that outcome is put on sink_queue once and
\* by the consumer that dequeued the task, and the outcomes never outnumber
\* the tasks dequeued.
Outcomes == sink_queue \o result

DeliveredOnce ==
    /\ \A t \in 1..n_configs :
          /\ Dequeues(t) <= 1
          /\ Occurrences(Outcomes, t) <= Dequeues(t)
          /\ Cardinality({c \in InFlight : cons[c].config = t})
               = Dequeues(t) - Occurrences(Outcomes, t)
    /\ Len(Outcomes) <= Len(deq_log)
    /\ \A i, j \in DOMAIN source_queue :
          source_queue[i] = source_queue[j] => i = j

PutByDequeuer ==
    \A t \in 1..n_configs :
       Occurrences(sink_queue', t) > Occurrences(sink_queue, t) =>
          \E c \in InFlight :
             /\ cons[c].config = t
             /\ cons'[c].pc # "request"
             /\ Occurrences(sink_queue', t) = 1

C7_NoDuplicateDelivery == [][DeliveredOnce' /\ PutByDequeuer]_vars

C7_Witness ==
    /\ max_outstanding_requests = 2
    /\ Len(sink_queue) = 2
    /\ Len(deq_log) = 2

\* C8: with stop_on_first_fail = true, once should_stop is set no further
\* task is admitted (enqueued and given a permit) by the producer.
C8_NoAdmissionAfterStop ==
    [][(stop_on_first_fail /\ shared.should_stop) => Admitted' = Admitted]_vars

C10_NoRequestAfterStop ==
    [][(stop_on_first_fail /\ shared.should_stop) =>
          \A c \in DOMAIN cons :
             ~(cons[c].pc = "get_nowait" /\ cons'[c].pc = "request")]_vars

\* C11: when the source has no length, total stays UnknownTotal until the
\* producer has exhausted the source; it is then set once, by the producer
\* only, to the number of items iterated, and never changes again.  While
\* total is UnknownTotal check_done is false, so a canceler that has not
\* seen should_stop makes its bulk release only after the producer has
\* admitted every item.
C11_TotalSetOnceByProducer ==
    [][~has_len =>
         /\ (shared'.total # shared.total =>
               /\ shared.total = UnknownTotal
               /\ prod.pc = "iter" /\ prod'.pc = "exit"
               /\ prod.total = n_configs
               /\ shared'.total = n_configs)
         /\ (prod'.pc # "exit" => shared'.total = UnknownTotal)
         /\ (shared'.total = UnknownTotal => ~check_done(shared'))
         /\ (canc # "exit" /\ canc' = "exit" /\ ~shared.should_stop =>
               prod.pc = "exit" /\ Admitted = n_configs)]_vars

C11_Witness ==
    /\ ~has_len
    /\ n_configs = MaxItems
    /\ shared.total = n_configs
    /\ ~shared.should_stop
    /\ canc = "exit"

\* C12: a call with attempts < 1 raises ValueError before anything of the
\* pipeline exists: no queue, semaphore or shared state is set up, no
\* coroutine is started, no item is read from the source and none is passed
\* to the collaborator.
C12_FailFastOnAttempts ==
    attempts < 1 =>
        /\ mainpc \in {"Idle", "ValueError"}
        /\ cons = <<>>
        /\ prod = [pc |-> "idle", total |-> 0]
        /\ canc = "idle" /\ upd = "idle"
        /\ source_queue = <<>> /\ sink_queue = <<>>
        /\ source_semaphore = 0
        /\ shared = SharedMemoryInit(UnknownTotal)
        /\ deq_log = <<>>
        /\ Counted = {}
        /\ result = <<>>

C12_Witness == attempts < 1 /\ mainpc = "ValueError" /\ n_configs > 0

\* C13: with time_between_requests = d > 0, two consecutive admissions by
\* the producer (put followed by release) are at least d apart, whatever
\* the consumers, the canceler and the updater do in between.
C13_AdmissionsSpaced ==
    [][(time_between_requests > 0 /\ Admitted >= 1 /\ Admitted' > Admitted)
         => since_admit >= time_between_requests]_vars

C13_Witness ==
    /\ time_between_requests = MaxDelay
    /\ Admitted >= 2
    /\ since_admit = 0

\* C14: with time_between_requests = d > 0, no consumer starts a call of
\* session.request sooner than d after the previous call was started,
\* for every pool size and every duration of the requests.
C14_RequestsSpaced ==
    [][(time_between_requests > 0 /\ Len(deq_log) >= 1
          /\ Len(deq_log') > Len(deq_log))
         => since_sent >= time_between_requests]_vars

\* C15: the canceler makes its bulk release at most once in a run; the
\* release adds exactly n_consumers permits, is made only in a state where
\* total is known and done = total or should_stop is set, and the canceler
\* returns right after it.  The canceler adds no permit before: every other
\* permit is the one the producer adds for an admitted item.
C15_BulkReleaseOnce ==
    [][/\ (canc = "exit" => canc' = "exit")
       /\ (canc # "exit" /\ canc' = "exit" =>
             /\ canc = "poll"
             /\ source_semaphore' =
                  source_semaphore + max_outstanding_requests
             /\ \/ shared.total # UnknownTotal /\ shared.done = shared.total
                \/ shared.should_stop)
       /\ (source_semaphore' > source_semaphore =>
             \/ canc # "exit" /\ canc' = "exit"
             \/ /\ canc' = canc
                /\ Admitted' = Admitted + 1
                /\ source_semaphore' = source_semaphore + 1)]_vars

C15_Witness ==
    /\ canc = "exit"
    /\ max_outstanding_requests = MaxPool
    /\ source_semaphore = MaxPool
    /\ shared.should_stop

\* C16: every read or write of a SharedMemory field by the producer, a
\* consumer, the canceler or the updater, the updater's final
\* print_counter included, is made while holding SharedMemory.lock.
C16_LockDiscipline == ~unlocked_access

\* C17: until the canceler's bulk release the count of the semaphore never
\* exceeds the number of tasks in source_queue, so every consumer that was
\* given its permit before the bulk release finds a task when it resumes,
\* and no consumer has left its loop before the bulk release.
C17_NoExitBeforeBulkRelease ==
    /\ BeforeBulkRelease =>
          /\ source_semaphore <= Len(source_queue)
          /\ \A c \in DOMAIN cons : cons[c].pc # "exit"
    /\ \A i \in DOMAIN holders :
          holders[i].early => i <= Len(source_queue)

C17_Witness ==
    /\ ~BeforeBulkRelease
    /\ Len(holders) = 2
    /\ holders[1].early
    /\ ~holders[2].early
    /\ Len(source_queue) = 1

\* what the canceler and the updater poll for
ShutdownCondition ==
    \/ shared.total # UnknownTotal /\ shared.done = shared.total
    \/ shared.should_stop

\* should_stop is never reset, and the shutdown condition, once true,
\* stays true
ShutdownConditionStable ==
    [][/\ (shared.should_stop => shared'.should_stop)
       /\ (ShutdownCondition => ShutdownCondition')]_vars

\* C18: should_stop never goes from true back to false, and once total is
\* known with done = total, or should_stop is set, that holds in every later
\* state; hence the canceler and the updater, polling at their own times,
\* each come to observe it and return.
C18_ShutdownObserved ==
    /\ ShutdownConditionStable
    /\ (ShutdownCondition ~> (canc = "exit"))
    /\ (ShutdownCondition ~> (upd = "exit"))

\* The same holds in every run in which print_counter is not handed a
\* total of 0.
ShutdownObservedOfNonEmptyRuns ==
    (ShutdownCondition /\ ~PrintRaises(shared))
        ~> (canc = "exit" /\ upd = "exit")

\* every consumer of the pool has left its loop
PipelineCompleted ==
    /\ DOMAIN cons # {}
    /\ \A c \in DOMAIN cons : cons[c].pc = "exit"

\* C19: the count of the semaphore is never negative; once every consumer
\* has exited, each on a permit that found the queue empty, the permits
\* left are as many as the tasks left undelivered in source_queue, and
\* both are 0 when should_stop was never set.
C19_PermitAccounting ==
    /\ source_semaphore >= 0
    /\ PipelineCompleted =>
          /\ source_semaphore = Len(source_queue)
          /\ (~shared.should_stop =>
                source_semaphore = 0 /\ source_queue = <<>>)

C19_Witness ==
    /\ mainpc = "Done"
    /\ PipelineCompleted
    /\ shared.should_stop
    /\ source_semaphore = 1
    /\ Len(source_queue) = 1

\* the tasks of a sequence are 1, 2, ... in the order of the source
InInputOrder(tasks) == \A i \in DOMAIN tasks : tasks[i] = i

\* C20: tasks are admitted in the order of the source and dequeued in the
\* same order; the outcomes are in the returned list in the order in which
\* the consumers put them; with max_outstanding_requests = 1 and no stop
\* the returned outcomes are in the order of the source.
C20_Ordering ==
    [][/\ InInputOrder(deq_log' \o source_queue')
       /\ Len(deq_log' \o source_queue') = Admitted'
       /\ (sink_queue' # sink_queue /\ mainpc' = "Running" =>
             /\ Len(sink_queue') = Len(sink_queue) + 1
             /\ SubSeq(sink_queue', 1, Len(sink_queue)) = sink_queue
             /\ TaskOf(sink_queue'[Len(sink_queue')]) \in
                  {cons[c].config : c \in InFlight})
       /\ (mainpc = "Draining" /\ mainpc' = "Done" => result' = sink_queue)
       /\ (mainpc' = "Done" /\ max_outstanding_requests = 1
             /\ ~shared'.should_stop =>
             /\ Len(result') = n_configs
             /\ InInputOrder([i \in DOMAIN result' |-> TaskOf(result'[i])]))
      ]_vars

C20_Witness ==
    /\ mainpc = "Done"
    /\ max_outstanding_requests = 1
    /\ ~shared.should_stop
    /\ Len(result) = MaxItems
    /\ TaskOf(result[1]) = 1
    /\ TaskOf(result[MaxItems]) = MaxItems

====
